---- MODULE Spec2Model ----
(***************************************************************************)
(* Roth-conversion retirement analysis: the deterministic year-by-year     *)
(* simulator (RothConversionAnalyzer.run_conversion_strategy), the Monte   *)
(* Carlo single-path simulator (MonteCarloRothAnalyzer.                    *)
(* run_single_simulation), the Monte Carlo batch                           *)
(* (run_monte_carlo_analysis), the return generator, analyze_results, the  *)
(* methods calculate_expenses and get_social_security called directly, and *)
(* one year of each simulator run from the same state.                     *)
(*                                                                         *)
(* Arithmetic.  The program computes in binary floating point.  Here an    *)
(* amount is a whole number of dollars, a rate a whole number of percent   *)
(* and a return a whole number of percent.  Every product or quotient the  *)
(* program computes with a rate is computed as written in the source and   *)
(* then rounded to a whole number by Rnd.  A floating-point result lies on *)
(* either side of the exact value or on it, so the rounding is an input    *)
(* of a run (rounding: down, to nearest, up): the quotient and product of  *)
(* a gross-up                                                              *)
(*   gross_needed = remaining_need / (1 - rate)                            *)
(*   net_received = used * (1 - rate)                                      *)
(* leave remaining_need - net_received above zero (down), at zero          *)
(* (nearest) or below zero (up), the three outcomes the program shows.     *)
(* Sums and differences of amounts are exact in the simulators; the        *)
(* statistics of analyze_results round their sums as described there.      *)
(***************************************************************************)
EXTENDS Integers, Sequences, FiniteSets, TLC

VARIABLES
    variant,              \* "det": run_conversion_strategy, "mc": run_single_simulation,
                          \* "batch": run_monte_carlo_analysis, "gen": generate_market_returns,
                          \* "analyze": analyze_results, "call": a method called directly,
                          \* "compare": one year of each simulator
    rounding,             \* how this run's products and quotients round: "down" | "nearest" | "up"
    pc,                   \* position: "gen" | "run" | "done" in a simulator; "call" | "submit" |
                          \* "collect" | "done" | "raised" in a batch or an analysis; "idle"
    cfg,                  \* the analyzer's attributes that the run reads (initial balances, ...)
    scenario,             \* mc: scenario name passed to run_single_simulation
    market_returns,       \* mc: the list generate_market_returns returned
    year_idx,             \* number of loop iterations completed (year_offset / year_idx)
    ira_balance,
    roth_balance,
    brokerage_balance,
    savings_balance,
    loc,                  \* locals of the loop body as the last iteration left them
    results,              \* det: the list of year_data dictionaries
    total_conversions,    \* mc accumulators
    total_taxes,
    years_with_shortfall,
    roth_withdrawals,
    outcome,              \* mc: the SimulationResult returned; det: the summary
    roth_drawn,           \* observer: what the years so far took out of roth_balance to cover needs
    futures,              \* batch: run index -> "pending" | "running" | "finished"
    worker_rng,           \* batch: worker -> state of the worker process's np.random
    worker_job,           \* batch: worker -> run index it executes, or -1
    run_log,              \* batch: run index -> what the run read and drew
    batch_results,        \* batch: the list run_monte_carlo_analysis builds; analyze: its argument
    completed,            \* observer: the run indices in the order in which the workers completed them
    error,                \* the exception raised to the caller, "none" if none
    execution,            \* batch: 1 in the first call of run_monte_carlo_analysis, 2 in the second
    previous_results,     \* batch: the list the first call returned
    np_random,            \* calling process: state of its global generator np.random
    calls,                \* observer: the calls of np.random.seed and generate_market_returns so far
    analysis              \* analyze: the dictionary analyze_results returned

simVars == <<rounding, pc, cfg, scenario, market_returns, year_idx, ira_balance,
             roth_balance, brokerage_balance, savings_balance, loc, results,
             total_conversions, total_taxes, years_with_shortfall,
             roth_withdrawals, outcome, roth_drawn>>
batchVars == <<futures, worker_rng, worker_job, run_log, batch_results, completed,
               error, execution, previous_results, np_random, calls, analysis>>
vars == <<variant, simVars, batchVars>>

----------------------------------------------------------------------------
\* Bounds of the model

\* mc: at most this many of a run's normal draws lie away from the mean
MaxShocks == 1

\* batch: num_simulations is at most MaxSimulations, the pool has at most
\* MaxCores worker processes
MaxSimulations == 3
MaxCores == 2

\* generator: at most MaxCalls calls of np.random.seed and generate_market_returns
MaxCalls == 5

\* analysis: analyze_results is called with at most MaxResults outcomes
MaxResults == 3

\* direct calls: calculate_expenses and get_social_security are called with
\* ages 55..MaxCallAge and years start_year..start_year + MaxCallYears
MaxCallAge == 90
MaxCallYears == 5

----------------------------------------------------------------------------
\* Attributes set by __init__ (identical in both analyzers unless prefixed)

start_year == 2026
start_age == 62
end_age == 85
ss_start_age == 67
rmd_age == 73
home_equity == 900000
base_expenses == 60000
travel_expenses == 20000
car_purchase == 20000
home_renovation == 80000
ss_annual_benefit == 36000
det_inflation_rate == 4
mc_inflation_rate == 3
mean_return == 6
correlation_factor == 70
standard_deduction == 15000
bracket_22_max == 103350
tax_rate_ira == 22
tax_rate_conversion == 22
tax_rate_brokerage == 15

scenarios ==
    [base_case       |-> [mean |-> 6, volatility |-> 18],
     low_return      |-> [mean |-> 4, volatility |-> 18],
     high_volatility |-> [mean |-> 6, volatility |-> 25],
     stagflation     |-> [mean |-> 3, volatility |-> 22],
     great_recession |-> [mean |-> 2, volatility |-> 30]]

----------------------------------------------------------------------------
\* Arithmetic helpers

Max(a, b) == IF a >= b THEN a ELSE b
Min(a, b) == IF a <= b THEN a ELSE b
Min3(a, b, c) == Min(a, Min(b, c))

\* num / den (den > 0) rounded to a whole number
Rnd(num, den) ==
    IF rounding = "up" THEN -((-num) \div den)
    ELSE IF rounding = "nearest"
         THEN (num \div den) + (IF 2 * (num % den) >= den THEN 1 ELSE 0)
    ELSE num \div den

\* x * p / 100
Pct(x, p) == Rnd(x * p, 100)

\* x / ((100 - p) / 100)
GrossUp(x, p) == Rnd(x * 100, 100 - p)

----------------------------------------------------------------------------
\* Economic model

\* (1 + inflation_rate) ** years_since_start, in ten-thousandths
RECURSIVE InflationFactor(_, _)
InflationFactor(years_since_start, inflation_rate) ==
    IF years_since_start = 0 THEN 10000
    ELSE Rnd(InflationFactor(years_since_start - 1, inflation_rate)
             * (100 + inflation_rate), 100)

\* amount * inflation_factor
Inflated(amount, inflation_factor) == Rnd(amount * inflation_factor, 10000)

\* mutant: the travel years end before age 70
CalculateExpenses_TravelEndsEarly(age, year, inflation_rate) ==
    LET years_since_start == year - start_year
        inflation_factor == InflationFactor(years_since_start, inflation_rate)
        base == Inflated(base_expenses, inflation_factor)
        travel == IF 62 <= age /\ age < 70
                  THEN Inflated(travel_expenses, inflation_factor) ELSE 0
        one_time == IF age = 63 THEN Inflated(car_purchase, inflation_factor)
                    ELSE IF age = 64 THEN Inflated(home_renovation, inflation_factor)
                    ELSE 0
    IN  base + travel + one_time

CalculateExpenses(age, year, inflation_rate) ==
    LET years_since_start == year - start_year
        inflation_factor == InflationFactor(years_since_start, inflation_rate)
        base == Inflated(base_expenses, inflation_factor)
        travel == IF 62 <= age /\ age <= 70
                  THEN Inflated(travel_expenses, inflation_factor) ELSE 0
        one_time == IF age = 63 THEN Inflated(car_purchase, inflation_factor)
                    ELSE IF age = 64 THEN Inflated(home_renovation, inflation_factor)
                    ELSE 0
    IN  base + travel + one_time

DetCalculateExpenses(age, year) == CalculateExpenses(age, year, det_inflation_rate)
McCalculateExpenses(age, year) == CalculateExpenses(age, year, mc_inflation_rate)

DetGetSocialSecurity(age) == IF age >= ss_start_age THEN ss_annual_benefit ELSE 0
\* mutant: the benefit is phased in, half of it in the first year
McGetSocialSecurity_PhaseIn(age) ==
    IF age > ss_start_age THEN ss_annual_benefit
    ELSE IF age = ss_start_age THEN ss_annual_benefit \div 2
    ELSE 0

McGetSocialSecurity(age) == IF age >= ss_start_age THEN ss_annual_benefit ELSE 0

\* mutant: the standard deduction is not taken off the bracket ceiling
CalculateConversionCapacity_NoDeduction(current_income) ==
    LET taxable_capacity == bracket_22_max
    IN  Max(0, taxable_capacity - current_income)

CalculateConversionCapacity(current_income) ==
    LET taxable_capacity == bracket_22_max - standard_deduction
    IN  Max(0, taxable_capacity - current_income)

\* home_equity * (1 + inflation_rate) ** (end_age - start_age); home_equity is a
\* multiple of 10000, so dividing first loses nothing
FinalHomeEquity(inflation_rate) ==
    (home_equity \div 10000) * InflationFactor(end_age - start_age, inflation_rate)

----------------------------------------------------------------------------
\* Return generator

\* multiples of the volatility by which a normal draw may lie from the mean
SigmaSteps == {0, -6, -20}

\* a value np.random.normal(mean_return, volatility) may return
NormalDraw(scen, k) == scenarios[scen].mean + k * scenarios[scen].volatility

\* the sequences of n draws of which at most k lie away from the mean
RECURSIVE DrawSteps(_, _)
DrawSteps(n, k) ==
    IF n = 0 THEN {<< >>}
    ELSE {Append(s, 0) : s \in DrawSteps(n - 1, k)}
         \cup (IF k = 0 THEN {}
               ELSE {Append(s[1], s[2]) :
                        s \in DrawSteps(n - 1, k - 1) \X (SigmaSteps \ {0})})

\* generate_market_returns, given the values draws[1..years] its calls of
\* np.random.normal return, in call order
RECURSIVE ReturnsUpTo(_, _, _)
ReturnsUpTo(scen, draws, n) ==
    IF n = 1 THEN << draws[1] >>
    ELSE LET returns == ReturnsUpTo(scen, draws, n - 1)
             prev == returns[n - 1]
             correlated_component == correlation_factor * prev
             random_component == (100 - correlation_factor) * draws[n]
             mean_reversion == 10 * (scenarios[scen].mean - prev)
             new_return == Rnd(correlated_component + random_component
                               + mean_reversion, 100)
         IN  Append(returns, new_return)

\* mutant: the generator stops one year short
GenerateMarketReturns_OneShort(scen, draws) ==
    LET years == end_age - start_age
    IN  ReturnsUpTo(scen, draws, years)

GenerateMarketReturns(scen, draws) ==
    LET years == end_age - start_age + 1
    IN  ReturnsUpTo(scen, draws, years)

----------------------------------------------------------------------------
\* Deterministic simulator: RothConversionAnalyzer.run_conversion_strategy

Balances(ira, roth, brokerage, savings) ==
    [ira |-> ira, roth |-> roth, brokerage |-> brokerage, savings |-> savings]

\* mutant: the year starts from last year's balances, growth is not applied
DetApplyGrowth_NoGrowth(b, market_return) == b

\* "Apply market growth at start of year"
DetApplyGrowth(b, market_return) ==
    [ira |-> Pct(b.ira, 100 + market_return),
     roth |-> Pct(b.roth, 100 + market_return),
     brokerage |-> Pct(b.brokerage, 100 + market_return),
     savings |-> Pct(b.savings, 100 + market_return)]

\* "Estimate current taxable income (before conversion)"
DetEstimateTaxableIncome(b, net_expenses) ==
    LET remaining_expense_need == net_expenses
        shortage == remaining_expense_need - b.savings
        brokerage_gross_needed == GrossUp(shortage, tax_rate_brokerage)
        remaining_after_brokerage ==
            shortage - Pct(b.brokerage, 100 - tax_rate_brokerage)
        estimated_brokerage_withdrawal ==
            IF b.savings < remaining_expense_need
            THEN IF b.brokerage < brokerage_gross_needed
                 THEN b.brokerage ELSE brokerage_gross_needed
            ELSE 0
        estimated_ira_withdrawal ==
            IF b.savings < remaining_expense_need
               /\ b.brokerage < brokerage_gross_needed
            THEN GrossUp(remaining_after_brokerage, tax_rate_ira)
            ELSE 0
    IN  estimated_ira_withdrawal + Pct(estimated_brokerage_withdrawal, 50)

\* "Determine conversion target based on age", "Limit by available IRA balance"
DetTargetConversion(age, conversion_capacity, ira) ==
    LET by_age == IF 62 <= age /\ age <= 66 THEN Min(conversion_capacity, 80000)
                  ELSE IF age = 67 THEN Min(conversion_capacity, 60000)
                  ELSE IF 68 <= age /\ age <= 72 THEN Min(conversion_capacity, 50000)
                  ELSE Min(conversion_capacity, 30000)
    IN  Min(by_age, ira)

\* mutant: a target of exactly the minimum is refused
DetAffordable_Strict(available_for_tax, conversion_tax_needed, target_conversion) ==
    available_for_tax >= conversion_tax_needed /\ target_conversion > 10000

\* "Check if we can afford the conversion tax"
DetAffordable(available_for_tax, conversion_tax_needed, target_conversion) ==
    available_for_tax >= conversion_tax_needed /\ target_conversion >= 10000

\* "Pay conversion tax from liquid assets"
DetPayConversionTax(b, conversion_tax) ==
    IF b.savings >= conversion_tax
    THEN [b EXCEPT !.savings = @ - conversion_tax]
    ELSE LET remaining_tax == conversion_tax - b.savings
         IN  [b EXCEPT !.savings = 0, !.brokerage = @ - remaining_tax]

\* "Execute conversion"
DetExecuteConversion(b, conversion_amount) ==
    [b EXCEPT !.ira = @ - conversion_amount, !.roth = @ + conversion_amount]

\* "ROTH CONVERSION LOGIC (ages 62-73)": the balances it leaves and its locals
DetConversion(b, age, net_expenses) ==
    IF 62 <= age /\ age <= 73 /\ b.ira > 0
    THEN LET current_taxable_income == DetEstimateTaxableIncome(b, net_expenses)
             conversion_capacity == CalculateConversionCapacity(current_taxable_income)
             target_conversion == DetTargetConversion(age, conversion_capacity, b.ira)
             conversion_tax_needed == Pct(target_conversion, tax_rate_conversion)
             available_for_tax == b.savings + Pct(b.brokerage, 50)
             executes == target_conversion > 0
                         /\ DetAffordable(available_for_tax, conversion_tax_needed,
                                          target_conversion)
         IN  [evaluated |-> TRUE,
              current_taxable_income |-> current_taxable_income,
              conversion_capacity |-> conversion_capacity,
              target_conversion |-> target_conversion,
              conversion_tax_needed |-> conversion_tax_needed,
              available_for_tax |-> available_for_tax,
              conversion_amount |-> IF executes THEN target_conversion ELSE 0,
              conversion_tax |-> IF executes THEN conversion_tax_needed ELSE 0,
              b |-> IF executes
                    THEN DetPayConversionTax(
                             DetExecuteConversion(b, target_conversion),
                             conversion_tax_needed)
                    ELSE b]
    ELSE [evaluated |-> FALSE, current_taxable_income |-> 0,
          conversion_capacity |-> 0, target_conversion |-> 0,
          conversion_tax_needed |-> 0, available_for_tax |-> 0,
          conversion_amount |-> 0, conversion_tax |-> 0, b |-> b]

\* The withdrawal waterfall works on the balances b, the remaining need and
\* what the year has used of each account so far
Waterfall(b, net_expenses) ==
    [b |-> b, remaining_need |-> net_expenses, savings_used |-> 0,
     brokerage_used |-> 0, brokerage_net |-> 0, ira_used |-> 0, ira_net |-> 0,
     roth_used |-> 0, withdrawal_taxes |-> 0, shortfall |-> FALSE]

\* "1. Use Savings first (tax-free)"
DetUseSavings(w) ==
    IF w.remaining_need > 0 /\ w.b.savings > 0
    THEN LET savings_used == Min(w.remaining_need, w.b.savings)
         IN  [w EXCEPT !.b.savings = @ - savings_used,
                       !.remaining_need = @ - savings_used,
                       !.savings_used = savings_used]
    ELSE w

\* "2. Use Brokerage (taxable)"
DetUseBrokerage(w) ==
    IF w.remaining_need > 0 /\ w.b.brokerage > 0
    THEN LET gross_needed == GrossUp(w.remaining_need, tax_rate_brokerage)
             brokerage_used == Min(gross_needed, w.b.brokerage)
             net_received == Pct(brokerage_used, 100 - tax_rate_brokerage)
             withdrawal_tax == Pct(brokerage_used, tax_rate_brokerage)
         IN  [w EXCEPT !.b.brokerage = @ - brokerage_used,
                       !.remaining_need = @ - net_received,
                       !.withdrawal_taxes = @ + withdrawal_tax,
                       !.brokerage_used = brokerage_used,
                       !.brokerage_net = net_received]
    ELSE w

\* "3. Use IRA (taxable)"
\* mutant: the tax on the IRA withdrawal is not added to the year's taxes
DetUseIRA_TaxUntracked(w) ==
    IF w.remaining_need > 0 /\ w.b.ira > 0
    THEN LET gross_needed == GrossUp(w.remaining_need, tax_rate_ira)
             ira_used == Min(gross_needed, w.b.ira)
             net_received == Pct(ira_used, 100 - tax_rate_ira)
         IN  [w EXCEPT !.b.ira = @ - ira_used,
                       !.remaining_need = @ - net_received,
                       !.ira_used = ira_used,
                       !.ira_net = net_received]
    ELSE w

DetUseIRA(w) ==
    IF w.remaining_need > 0 /\ w.b.ira > 0
    THEN LET gross_needed == GrossUp(w.remaining_need, tax_rate_ira)
             ira_used == Min(gross_needed, w.b.ira)
             net_received == Pct(ira_used, 100 - tax_rate_ira)
             withdrawal_tax == Pct(ira_used, tax_rate_ira)
         IN  [w EXCEPT !.b.ira = @ - ira_used,
                       !.remaining_need = @ - net_received,
                       !.withdrawal_taxes = @ + withdrawal_tax,
                       !.ira_used = ira_used,
                       !.ira_net = net_received]
    ELSE w

\* mutant: the residual need is taken from the Roth balance
DetNeverUseRoth_DrawsRoth(w) ==
    IF w.remaining_need > 0
    THEN LET taken == Min(w.remaining_need, w.b.roth)
         IN  [w EXCEPT !.b.roth = @ - taken, !.remaining_need = @ - taken,
                       !.shortfall = TRUE]
    ELSE w

\* "4. NEVER USE ROTH (preserve for inheritance)": the shortfall is printed
DetNeverUseRoth(w) ==
    IF w.remaining_need > 0 THEN [w EXCEPT !.shortfall = TRUE] ELSE w

\* year_data as the loop body leaves it
DetYearData(year, age, start, total_expenses, ss_income, net_expenses, conv, w) ==
    [Year |-> year,
     Age |-> age,
     IRA_Start |-> start.ira,
     Roth_Start |-> start.roth,
     Expenses |-> total_expenses,
     Social_Security |-> ss_income,
     Net_Expenses |-> net_expenses,
     Conversion_Amount |-> conv.conversion_amount,
     Conversion_Tax |-> conv.conversion_tax,
     IRA_Withdrawal |-> w.ira_used,
     Brokerage_Withdrawal |-> w.brokerage_used,
     Savings_Withdrawal |-> w.savings_used,
     Roth_Withdrawal |-> 0,
     Total_Taxes |-> conv.conversion_tax + w.withdrawal_taxes,
     IRA_End |-> w.b.ira,
     Roth_End |-> w.b.roth,
     Savings_End |-> w.b.savings,
     Brokerage_End |-> w.b.brokerage]

\* One iteration of the loop over year_offset (each local is bound once, in
\* the order in which the loop body assigns it)
DetYear ==
    /\ variant = "det"
    /\ pc = "run"
    /\ year_idx < end_age - start_age + 1
    /\ \E year_offset \in {year_idx} :
       \E year \in {start_year + year_offset} :
       \E age \in {start_age + year_offset} :
       \E start \in {DetApplyGrowth(
                        Balances(ira_balance, roth_balance, brokerage_balance,
                                 savings_balance),
                        cfg.market_return)} :
       \E total_expenses \in {DetCalculateExpenses(age, year)} :
       \E ss_income \in {DetGetSocialSecurity(age)} :
       \E net_expenses \in {Max(0, total_expenses - ss_income)} :
       \E conv \in {DetConversion(start, age, net_expenses)} :
       \E w0 \in {Waterfall(conv.b, net_expenses)} :
       \E w1 \in {DetUseSavings(w0)} :
       \E w2 \in {DetUseBrokerage(w1)} :
       \E w3 \in {DetUseIRA(w2)} :
       \E w4 \in {DetNeverUseRoth(w3)} :
       \E year_data \in {DetYearData(year, age, start, total_expenses, ss_income,
                                     net_expenses, conv, w4)} :
           /\ ira_balance' = w4.b.ira
           /\ roth_balance' = w4.b.roth
           /\ brokerage_balance' = w4.b.brokerage
           /\ savings_balance' = w4.b.savings
           /\ results' = Append(results, year_data)
           /\ loc' = [age |-> age, year |-> year, market_return |-> cfg.market_return,
                      start |-> start, total_expenses |-> total_expenses,
                      ss_income |-> ss_income, net_expenses |-> net_expenses,
                      conv |-> conv, w0 |-> w0, w1 |-> w1, w2 |-> w2, w3 |-> w3,
                      w4 |-> w4]
    /\ year_idx' = year_idx + 1
    /\ UNCHANGED <<variant, rounding, pc, cfg, scenario, market_returns,
                   total_conversions, total_taxes, years_with_shortfall,
                   roth_withdrawals, outcome, roth_drawn, batchVars>>

\* "Create DataFrame", "Summary statistics"
DetFinish ==
    /\ variant = "det"
    /\ pc = "run"
    /\ year_idx = end_age - start_age + 1
    /\ LET last == results[Len(results)]
           final_liquid_assets ==
               last.IRA_End + last.Roth_End + last.Savings_End + last.Brokerage_End
           final_home_equity == FinalHomeEquity(det_inflation_rate)
       IN  outcome' = [final_net_worth |-> final_liquid_assets + final_home_equity,
                       final_roth |-> last.Roth_End,
                       rows |-> Len(results)]
    /\ pc' = "done"
    /\ UNCHANGED <<variant, rounding, cfg, scenario, market_returns, year_idx,
                   ira_balance, roth_balance, brokerage_balance, savings_balance,
                   loc, results, total_conversions, total_taxes,
                   years_with_shortfall, roth_withdrawals, roth_drawn, batchVars>>

----------------------------------------------------------------------------
\* Monte Carlo simulator: MonteCarloRothAnalyzer.run_single_simulation

\* mutant: the balance is not floored at zero
McFloor_NoFloor(balance) == balance

\* "Apply market returns (could be negative!)", "Ensure no negative balances"
McFloor(balance) == Max(0, balance)

McApplyGrowth(b, market_return) ==
    [ira |-> McFloor(Pct(b.ira, 100 + market_return)),
     roth |-> McFloor(Pct(b.roth, 100 + market_return)),
     brokerage |-> McFloor(Pct(b.brokerage, 100 + market_return)),
     savings |-> McFloor(Pct(b.savings, 100 + market_return))]

\* "Estimate taxable income"
McEstimateTaxableIncome(b, net_expenses) ==
    LET estimated_withdrawals == Max(0, net_expenses - b.savings)
        estimated_brokerage == Min(Rnd(estimated_withdrawals * 100, 85), b.brokerage)
        estimated_ira ==
            Max(0, Rnd((estimated_withdrawals - Rnd(estimated_brokerage * 85, 100))
                       * 100, 78))
    IN  estimated_ira + Pct(estimated_brokerage, 50)

\* mutant: the target does not step down at 67 and 68
McGetConversionTarget_NoStepDown(age) ==
    IF 62 <= age /\ age <= 72 THEN 80000
    ELSE IF age >= 73 THEN 30000
    ELSE 0

McGetConversionTarget(age) ==
    IF 62 <= age /\ age <= 66 THEN 80000
    ELSE IF age = 67 THEN 60000
    ELSE IF 68 <= age /\ age <= 72 THEN 50000
    ELSE IF age >= 73 THEN 30000
    ELSE 0

\* "Check affordability"
McAffordable(available_for_tax, conversion_tax, target_conversion) ==
    available_for_tax >= conversion_tax /\ target_conversion >= 10000

\* mutant: the tax is taken from brokerage first
McPayConversionTax_BrokerageFirst(b, conversion_tax) ==
    IF b.brokerage >= conversion_tax
    THEN [b EXCEPT !.brokerage = @ - conversion_tax]
    ELSE LET remaining_tax == conversion_tax - b.brokerage
         IN  [b EXCEPT !.brokerage = 0, !.savings = @ - remaining_tax]

\* "Pay conversion tax"
McPayConversionTax(b, conversion_tax) ==
    IF b.savings >= conversion_tax
    THEN [b EXCEPT !.savings = @ - conversion_tax]
    ELSE LET remaining_tax == conversion_tax - b.savings
         IN  [b EXCEPT !.savings = 0, !.brokerage = @ - remaining_tax]

McExecuteConversion(b, conversion_amount) ==
    [b EXCEPT !.ira = @ - conversion_amount, !.roth = @ + conversion_amount]

\* "ROTH CONVERSION LOGIC"
McConversion(b, age, net_expenses) ==
    IF 62 <= age /\ age <= 73 /\ b.ira > 0
    THEN LET current_taxable_income == McEstimateTaxableIncome(b, net_expenses)
             conversion_capacity == CalculateConversionCapacity(current_taxable_income)
             target_conversion == Min3(McGetConversionTarget(age),
                                       conversion_capacity, b.ira)
             conversion_tax == Pct(target_conversion, tax_rate_conversion)
             available_for_tax == b.savings + Pct(b.brokerage, 40)
             executes == target_conversion > 0
                         /\ McAffordable(available_for_tax, conversion_tax,
                                         target_conversion)
         IN  [evaluated |-> TRUE,
              current_taxable_income |-> current_taxable_income,
              conversion_capacity |-> conversion_capacity,
              target_conversion |-> target_conversion,
              conversion_tax_needed |-> conversion_tax,
              available_for_tax |-> available_for_tax,
              conversion_amount |-> IF executes THEN target_conversion ELSE 0,
              conversion_tax |-> IF executes THEN conversion_tax ELSE 0,
              b |-> IF executes
                    THEN McPayConversionTax(
                             McExecuteConversion(b, target_conversion),
                             conversion_tax)
                    ELSE b]
    ELSE [evaluated |-> FALSE, current_taxable_income |-> 0,
          conversion_capacity |-> 0, target_conversion |-> 0,
          conversion_tax_needed |-> 0, available_for_tax |-> 0,
          conversion_amount |-> 0, conversion_tax |-> 0, b |-> b]

\* "Use savings"
McUseSavings(w) ==
    IF w.remaining_need > 0 /\ w.b.savings > 0
    THEN LET used == Min(w.remaining_need, w.b.savings)
         IN  [w EXCEPT !.b.savings = @ - used,
                       !.remaining_need = @ - used,
                       !.savings_used = used]
    ELSE w

\* "Use brokerage"
McUseBrokerage(w) ==
    IF w.remaining_need > 0 /\ w.b.brokerage > 0
    THEN LET gross_needed == GrossUp(w.remaining_need, tax_rate_brokerage)
             used == Min(gross_needed, w.b.brokerage)
             net_received == Pct(used, 100 - tax_rate_brokerage)
         IN  [w EXCEPT !.b.brokerage = @ - used,
                       !.remaining_need = @ - net_received,
                       !.withdrawal_taxes = @ + Pct(used, tax_rate_brokerage),
                       !.brokerage_used = used,
                       !.brokerage_net = net_received]
    ELSE w

\* "Use IRA"
McUseIRA(w) ==
    IF w.remaining_need > 0 /\ w.b.ira > 0
    THEN LET gross_needed == GrossUp(w.remaining_need, tax_rate_ira)
             used == Min(gross_needed, w.b.ira)
             net_received == Pct(used, 100 - tax_rate_ira)
         IN  [w EXCEPT !.b.ira = @ - used,
                       !.remaining_need = @ - net_received,
                       !.withdrawal_taxes = @ + Pct(used, tax_rate_ira),
                       !.ira_used = used,
                       !.ira_net = net_received]
    ELSE w

\* mutant: a full withdrawal from the Roth balance is not added to roth_withdrawals
McUseRoth_Untracked(w) ==
    IF w.remaining_need > 0
    THEN IF w.b.roth >= w.remaining_need
         THEN [w EXCEPT !.b.roth = @ - w.remaining_need,
                        !.remaining_need = 0]
         ELSE [w EXCEPT !.roth_used = w.b.roth,
                        !.remaining_need = @ - w.b.roth,
                        !.b.roth = 0,
                        !.shortfall = TRUE]
    ELSE w

\* "Use Roth (track this as failure)": roth_used is what the step adds to
\* roth_withdrawals, shortfall whether it counts a year with shortfall
McUseRoth(w) ==
    IF w.remaining_need > 0
    THEN IF w.b.roth >= w.remaining_need
         THEN [w EXCEPT !.b.roth = @ - w.remaining_need,
                        !.roth_used = w.remaining_need,
                        !.remaining_need = 0]
         ELSE [w EXCEPT !.roth_used = w.b.roth,
                        !.remaining_need = @ - w.b.roth,
                        !.b.roth = 0,
                        !.shortfall = TRUE]
    ELSE w

\* market_returns = self.generate_market_returns(scenario)
McGenerate ==
    /\ variant = "mc"
    /\ pc = "gen"
    /\ \E steps \in DrawSteps(end_age - start_age + 1, MaxShocks) :
          LET draws == [i \in DOMAIN steps |-> NormalDraw(scenario, steps[i])]
          IN  market_returns' = GenerateMarketReturns(scenario, draws)
    /\ pc' = "run"
    /\ UNCHANGED <<variant, rounding, cfg, scenario, year_idx, ira_balance,
                   roth_balance, brokerage_balance, savings_balance, loc, results,
                   total_conversions, total_taxes, years_with_shortfall,
                   roth_withdrawals, outcome, roth_drawn, batchVars>>

\* One iteration of the loop over year_idx (each local is bound once, in the
\* order in which the loop body assigns it)
McYear ==
    /\ variant = "mc"
    /\ pc = "run"
    /\ year_idx < Len(market_returns)
    /\ \E age \in {start_age + year_idx} :
       \E year \in {start_year + year_idx} :
       \E market_return \in {market_returns[year_idx + 1]} :
       \E start \in {McApplyGrowth(
                        Balances(ira_balance, roth_balance, brokerage_balance,
                                 savings_balance),
                        market_return)} :
       \E total_expenses \in {McCalculateExpenses(age, year)} :
       \E ss_income \in {McGetSocialSecurity(age)} :
       \E net_expenses \in {Max(0, total_expenses - ss_income)} :
       \E conv \in {McConversion(start, age, net_expenses)} :
       \E w0 \in {Waterfall(conv.b, net_expenses)} :
       \E w1 \in {McUseSavings(w0)} :
       \E w2 \in {McUseBrokerage(w1)} :
       \E w3 \in {McUseIRA(w2)} :
       \E w4 \in {McUseRoth(w3)} :
           /\ ira_balance' = w4.b.ira
           /\ roth_balance' = w4.b.roth
           /\ brokerage_balance' = w4.b.brokerage
           /\ savings_balance' = w4.b.savings
           /\ total_conversions' = total_conversions + conv.conversion_amount
           /\ total_taxes' = total_taxes + conv.conversion_tax + w4.withdrawal_taxes
           /\ years_with_shortfall' =
                  years_with_shortfall + (IF w4.shortfall THEN 1 ELSE 0)
           /\ roth_withdrawals' = roth_withdrawals + w4.roth_used
           /\ roth_drawn' = roth_drawn + (w3.b.roth - w4.b.roth)
           /\ loc' = [age |-> age, year |-> year, market_return |-> market_return,
                      start |-> start, total_expenses |-> total_expenses,
                      ss_income |-> ss_income, net_expenses |-> net_expenses,
                      conv |-> conv, w0 |-> w0, w1 |-> w1, w2 |-> w2, w3 |-> w3,
                      w4 |-> w4]
    /\ year_idx' = year_idx + 1
    /\ UNCHANGED <<variant, rounding, pc, cfg, scenario, market_returns, results,
                   outcome, batchVars>>

SeqSum(s) ==
    LET RECURSIVE Sum(_)
        Sum(n) == IF n = 0 THEN 0 ELSE Sum(n - 1) + s[n]
    IN  Sum(Len(s))

SeqMin(s) == CHOOSE x \in {s[i] : i \in DOMAIN s} : \A i \in DOMAIN s : x <= s[i]
SeqMax(s) == CHOOSE x \in {s[i] : i \in DOMAIN s} : \A i \in DOMAIN s : x >= s[i]
Abs(x) == IF x < 0 THEN -x ELSE x

\* "Calculate sequence of returns risk (early years impact)"
SequenceRisk(returns) ==
    LET early_years_avg == Rnd(SeqSum(SubSeq(returns, 1, Min(5, Len(returns)))),
                               Min(5, Len(returns)))
    IN  Abs(early_years_avg - mean_return)

\* "Calculate final metrics", return SimulationResult(...)
McFinish ==
    /\ variant = "mc"
    /\ pc = "run"
    /\ year_idx = Len(market_returns)
    /\ LET final_home_equity == FinalHomeEquity(mc_inflation_rate)
           final_net_worth == ira_balance + roth_balance + savings_balance
                              + brokerage_balance + final_home_equity
       IN  outcome' = [simulation_id |-> 0,
                       final_net_worth |-> final_net_worth,
                       final_roth_balance |-> roth_balance,
                       total_conversions |-> total_conversions,
                       total_taxes |-> total_taxes,
                       roth_preserved |-> (roth_withdrawals = 0),
                       years_with_shortfall |-> years_with_shortfall,
                       worst_year_return |-> SeqMin(market_returns),
                       best_year_return |-> SeqMax(market_returns),
                       sequence_of_returns_risk |-> SequenceRisk(market_returns)]
    /\ pc' = "done"
    /\ UNCHANGED <<variant, rounding, cfg, scenario, market_returns, year_idx,
                   ira_balance, roth_balance, brokerage_balance, savings_balance,
                   loc, results, total_conversions, total_taxes,
                   years_with_shortfall, roth_withdrawals, roth_drawn, batchVars>>

----------------------------------------------------------------------------
\* The analyzers as constructed

\* values of the balance attributes: the ones __init__ sets, and others a
\* caller may set before a run
DetConfigs ==
    {[initial_ira |-> 1250000, initial_roth |-> 250000,
      initial_brokerage |-> 1200000, initial_savings |-> 300000, market_return |-> 3],
     [initial_ira |-> 1250000, initial_roth |-> 250000,
      initial_brokerage |-> 1200000, initial_savings |-> 300000, market_return |-> 0],
     [initial_ira |-> 10000, initial_roth |-> 250000,
      initial_brokerage |-> 150000, initial_savings |-> 100000, market_return |-> 0],
     [initial_ira |-> 1250000, initial_roth |-> 250000,
      initial_brokerage |-> 30000, initial_savings |-> 20000, market_return |-> 3],
     [initial_ira |-> 5000, initial_roth |-> 250000,
      initial_brokerage |-> 50000, initial_savings |-> 200000, market_return |-> 0]}

McConfigs ==
    {[initial_ira |-> 1250000, initial_roth |-> 250000,
      initial_brokerage |-> 1200000, initial_savings |-> 300000],
     [initial_ira |-> 9434, initial_roth |-> 250000,
      initial_brokerage |-> 150000, initial_savings |-> 100000],
     [initial_ira |-> 1250000, initial_roth |-> 250000,
      initial_brokerage |-> 30000, initial_savings |-> 20000]}

NoLocals == [age |-> 0]

BatchIdle ==
    /\ futures = << >>
    /\ worker_rng = << >>
    /\ worker_job = << >>
    /\ run_log = << >>
    /\ batch_results = << >>
    /\ completed = << >>
    /\ error = "none"
    /\ execution = 1
    /\ previous_results = << >>
    /\ np_random = [stream |-> 0, pos |-> 0]
    /\ calls = << >>
    /\ analysis = [none |-> TRUE]

Init ==
    /\ variant \in {"det", "mc"}
    /\ rounding \in {"down", "nearest", "up"}
    /\ cfg \in (IF variant = "det" THEN DetConfigs ELSE McConfigs)
    /\ scenario \in (IF variant = "det" THEN {"none"} ELSE DOMAIN scenarios)
    /\ pc = (IF variant = "det" THEN "run" ELSE "gen")
    /\ market_returns = << >>
    /\ year_idx = 0
    /\ ira_balance = cfg.initial_ira
    /\ roth_balance = cfg.initial_roth
    /\ brokerage_balance = cfg.initial_brokerage
    /\ savings_balance = cfg.initial_savings
    /\ loc = NoLocals
    /\ results = << >>
    /\ total_conversions = 0
    /\ total_taxes = 0
    /\ years_with_shortfall = 0
    /\ roth_withdrawals = 0
    /\ roth_drawn = 0
    /\ outcome = [none |-> TRUE]
    /\ BatchIdle

Next ==
    \/ DetYear
    \/ DetFinish
    \/ McGenerate
    \/ McYear
    \/ McFinish

Spec == Init /\ [][Next]_vars

----------------------------------------------------------------------------
\* Monte Carlo batch: MonteCarloRothAnalyzer.run_monte_carlo_analysis
\*
\* generate_market_returns draws from np.random, the global generator of the
\* process that executes it.  Each worker of the ProcessPoolExecutor is a
\* process with its own copy of that generator: under the fork start method a
\* copy of the parent's state (stream 0), under spawn a freshly seeded one
\* (stream w).  A generator state is the stream and the number of values drawn
\* from it so far; writer is the run that last advanced it, -1 if none has.

NoRun == [worker |-> 0]

WorkerStartState(w, start_method) ==
    [stream |-> IF start_method = "fork" THEN 0 ELSE w, pos |-> 0, writer |-> -1]

\* run_single_simulation(i, scenario) executed by a process whose generator
\* is in state rng: its calls of np.random.normal read and advance rng
RunOnWorker(i, w, rng) ==
    LET years == end_age - start_age + 1
    IN  [log |-> [worker |-> w,
                  rng_read |-> [stream |-> rng.stream, pos |-> rng.pos],
                  rng_written_by |-> rng.writer,
                  result |-> [simulation_id |-> i,
                              drew |-> [stream |-> rng.stream, first |-> rng.pos,
                                        count |-> years]]],
         rng |-> [stream |-> rng.stream, pos |-> rng.pos + years, writer |-> i]]

\* self.scenarios[scenario] in the message run_monte_carlo_analysis prints
\* before it creates the pool: the exception the lookup raises, "none" if none
ScenarioLookup_Unchecked(name) == "none"

ScenarioLookup(name) == IF name \in DOMAIN scenarios THEN "none" ELSE "KeyError"

\* the arguments of a batch: the scenario name (a registered one or another),
\* self.num_simulations, min(cpu_count, 8), and how the platform starts the
\* worker processes; before each execution the caller seeds np.random with
\* the same seed (stream 0)
BatchConfigs ==
    {[scenario |-> s, num_simulations |-> n, num_cores |-> c, start_method |-> m] :
        s \in DOMAIN scenarios \cup {"no_such_scenario"},
        n \in (-1)..MaxSimulations, c \in 1..Min(MaxCores, 8), m \in {"fork", "spawn"}}

SimIdle ==
    /\ rounding = "nearest"
    /\ scenario \in {"base_case"}
    /\ market_returns = << >>
    /\ year_idx = 0
    /\ ira_balance = 0
    /\ roth_balance = 0
    /\ brokerage_balance = 0
    /\ savings_balance = 0
    /\ loc = NoLocals
    /\ results = << >>
    /\ total_conversions = 0
    /\ total_taxes = 0
    /\ years_with_shortfall = 0
    /\ roth_withdrawals = 0
    /\ roth_drawn = 0
    /\ outcome = [none |-> TRUE]

InitBatch ==
    /\ variant = "batch"
    /\ cfg \in BatchConfigs
    /\ pc = "call"
    /\ BatchIdle
    /\ SimIdle

\* print(... self.scenarios[scenario]['mean'] ...); num_cores = min(cpu_count, 8)
BatchCall ==
    /\ variant = "batch"
    /\ pc = "call"
    /\ error' = ScenarioLookup(cfg.scenario)
    /\ pc' = IF error' = "none" THEN "submit" ELSE "raised"
    /\ UNCHANGED <<variant, cfg, futures, worker_rng, worker_job, run_log,
                   batch_results, completed, execution, previous_results,
                   np_random, calls, analysis>>
    /\ UNCHANGED <<rounding, scenario, market_returns, year_idx, ira_balance,
                   roth_balance, brokerage_balance, savings_balance, loc, results,
                   total_conversions, total_taxes, years_with_shortfall,
                   roth_withdrawals, outcome, roth_drawn>>

\* with ProcessPoolExecutor(max_workers=num_cores) as executor: futures = [...]
BatchSubmit ==
    /\ variant = "batch"
    /\ pc = "submit"
    /\ futures' = [i \in 1..cfg.num_simulations |-> "pending"]
    /\ run_log' = [i \in 1..cfg.num_simulations |-> NoRun]
    /\ worker_rng' = [w \in 1..cfg.num_cores |-> WorkerStartState(w, cfg.start_method)]
    /\ worker_job' = [w \in 1..cfg.num_cores |-> -1]
    /\ pc' = "collect"
    /\ UNCHANGED <<variant, cfg, batch_results, completed, error, execution,
                   previous_results, np_random, calls, analysis>>
    /\ UNCHANGED <<rounding, scenario, market_returns, year_idx, ira_balance,
                   roth_balance, brokerage_balance, savings_balance, loc, results,
                   total_conversions, total_taxes, years_with_shortfall,
                   roth_withdrawals, outcome, roth_drawn>>

\* an idle worker process takes the oldest pending call from the call queue
WorkerTake(w) ==
    /\ variant = "batch"
    /\ pc = "collect"
    /\ worker_job[w] = -1
    /\ \E i \in DOMAIN futures :
          /\ futures[i] = "pending"
          /\ \A j \in 1..(i - 1) : futures[j] # "pending"
          /\ futures' = [futures EXCEPT ![i] = "running"]
          /\ worker_job' = [worker_job EXCEPT ![w] = i - 1]
    /\ UNCHANGED <<variant, simVars, worker_rng, run_log, batch_results, completed,
                   error, execution, previous_results, np_random, calls, analysis>>

\* the worker process executes the call and sets the future's result, or the
\* exception the call raised (an unknown scenario raises KeyError in
\* generate_market_returns before anything is drawn)
WorkerRun(w) ==
    /\ variant = "batch"
    /\ pc = "collect"
    /\ worker_job[w] # -1
    /\ \E raises \in (IF cfg.scenario \in DOMAIN scenarios THEN BOOLEAN ELSE {TRUE}) :
          LET i == worker_job[w]
              run == RunOnWorker(i, w, worker_rng[w])
          IN  /\ run_log' = [run_log EXCEPT ![i + 1] = run.log]
              /\ worker_rng' = IF cfg.scenario \in DOMAIN scenarios
                               THEN [worker_rng EXCEPT ![w] = run.rng]
                               ELSE worker_rng
              /\ futures' = [futures EXCEPT
                                ![i + 1] = IF raises THEN "failed" ELSE "finished"]
              /\ completed' = Append(completed, i)
    /\ worker_job' = [worker_job EXCEPT ![w] = -1]
    /\ UNCHANGED <<variant, simVars, batch_results, error, execution,
                   previous_results, np_random, calls, analysis>>

\* (as BatchCollect, but over the futures in the order in which they complete)
BatchCollect_AsCompleted ==
    /\ variant = "batch"
    /\ pc = "collect"
    /\ Len(batch_results) < Len(futures)
    /\ \E i \in DOMAIN futures :
          /\ \A k \in DOMAIN batch_results : batch_results[k].simulation_id # i - 1
          /\ \/ /\ futures[i] = "finished"
                /\ batch_results' = Append(batch_results, run_log[i].result)
                /\ UNCHANGED <<pc, error>>
             \/ /\ futures[i] = "failed"
                /\ error' = "RunError"
                /\ pc' = "raised"
                /\ UNCHANGED batch_results
    /\ UNCHANGED <<variant, rounding, cfg, scenario, market_returns, year_idx,
                   ira_balance, roth_balance, brokerage_balance, savings_balance,
                   loc, results, total_conversions, total_taxes,
                   years_with_shortfall, roth_withdrawals, outcome, roth_drawn>>
    /\ UNCHANGED <<futures, worker_rng, worker_job, run_log, completed, execution,
                   previous_results, np_random, calls, analysis>>

\* for i, future in enumerate(futures): results.append(future.result())
\* future.result() raises the exception the call raised; it leaves the
\* function, and with it the list results
BatchCollect ==
    /\ variant = "batch"
    /\ pc = "collect"
    /\ Len(batch_results) < Len(futures)
    /\ \/ /\ futures[Len(batch_results) + 1] = "finished"
          /\ batch_results' = Append(batch_results, run_log[Len(batch_results) + 1].result)
          /\ UNCHANGED <<pc, error>>
       \/ /\ futures[Len(batch_results) + 1] = "failed"
          /\ error' = "RunError"
          /\ pc' = "raised"
          /\ UNCHANGED batch_results
    /\ UNCHANGED <<variant, rounding, cfg, scenario, market_returns, year_idx,
                   ira_balance, roth_balance, brokerage_balance, savings_balance,
                   loc, results, total_conversions, total_taxes,
                   years_with_shortfall, roth_withdrawals, outcome, roth_drawn>>
    /\ UNCHANGED <<futures, worker_rng, worker_job, run_log, completed, execution,
                   previous_results, np_random, calls, analysis>>

\* the user interrupts the batch while future.result() waits: KeyboardInterrupt
\* is raised in the collecting loop and leaves the function
BatchInterrupt ==
    /\ variant = "batch"
    /\ pc = "collect"
    /\ Len(batch_results) < Len(futures)
    /\ futures[Len(batch_results) + 1] \in {"pending", "running"}
    /\ error' = "KeyboardInterrupt"
    /\ pc' = "raised"
    /\ UNCHANGED <<variant, rounding, cfg, scenario, market_returns, year_idx,
                   ira_balance, roth_balance, brokerage_balance, savings_balance,
                   loc, results, total_conversions, total_taxes,
                   years_with_shortfall, roth_withdrawals, outcome, roth_drawn>>
    /\ UNCHANGED <<futures, worker_rng, worker_job, run_log, batch_results, completed,
                   execution, previous_results, np_random, calls, analysis>>

\* return results
BatchReturn ==
    /\ variant = "batch"
    /\ pc = "collect"
    /\ Len(batch_results) = Len(futures)
    /\ pc' = "done"
    /\ UNCHANGED <<variant, cfg, batchVars>>
    /\ UNCHANGED <<rounding, scenario, market_returns, year_idx, ira_balance,
                   roth_balance, brokerage_balance, savings_balance, loc, results,
                   total_conversions, total_taxes, years_with_shortfall,
                   roth_withdrawals, outcome, roth_drawn>>

\* the caller seeds np.random with the same seed and calls
\* run_monte_carlo_analysis again, with the same scenario and run count
BatchAgain ==
    /\ variant = "batch"
    /\ pc = "done"
    /\ execution = 1
    /\ execution' = 2
    /\ previous_results' = batch_results
    /\ pc' = "call"
    /\ futures' = << >>
    /\ worker_rng' = << >>
    /\ worker_job' = << >>
    /\ run_log' = << >>
    /\ batch_results' = << >>
    /\ completed' = << >>
    /\ UNCHANGED <<variant, cfg, error, np_random, calls, analysis>>
    /\ UNCHANGED <<rounding, scenario, market_returns, year_idx, ira_balance,
                   roth_balance, brokerage_balance, savings_balance, loc, results,
                   total_conversions, total_taxes, years_with_shortfall,
                   roth_withdrawals, outcome, roth_drawn>>

\* what the caller holds when the call is over: the returned list, or nothing
\* when the call raised
ReturnedResults == IF pc = "done" THEN batch_results ELSE << >>

NextBatch ==
    \/ BatchCall
    \/ BatchSubmit
    \/ \E w \in DOMAIN worker_job : WorkerTake(w)
    \/ \E w \in DOMAIN worker_job : WorkerRun(w)
    \/ BatchCollect
    \/ BatchInterrupt
    \/ BatchReturn

SpecBatch == InitBatch /\ [][NextBatch]_vars

\* two executions of the batch, one after the other
NextRepeat ==
    \/ NextBatch
    \/ BatchAgain

SpecRepeat == InitBatch /\ [][NextRepeat]_vars

----------------------------------------------------------------------------
\* generate_market_returns and the global generator np.random of the process
\* that calls it.  The state of the generator is the stream it was seeded
\* with (0: never seeded by the caller) and the number of values drawn since;
\* the value of a draw is a function of the two.

GenSeeds == {1, 2}

\* np.random.seed(seed)
SeedState(seed) == [stream |-> seed, pos |-> 0]

\* the value np.random.normal(mean_return, volatility) returns in state
\* [stream, pos], as a number of volatilities away from the mean
StepAt(stream, pos) ==
    LET k == (3 * stream + pos) % 7
    IN  IF k = 2 THEN -6 ELSE IF k = 5 THEN -20 ELSE 0

\* (a generator private to the module, which np.random.seed does not reach:
\* its position is the number of values the calls so far have drawn)
DrawsFrom_PrivateGenerator(state, scen) ==
    LET years == end_age - start_age + 1
        drawn == years * Cardinality({c \in DOMAIN calls :
                                         calls[c].op = "generate_market_returns"})
    IN  [i \in 1..years |-> NormalDraw(scen, StepAt(0, drawn + i - 1))]

\* the values the calls of np.random.normal in generate_market_returns return
\* when the call starts in generator state state (one call per year)
DrawsFrom(state, scen) ==
    LET years == end_age - start_age + 1
    IN  [i \in 1..years |-> NormalDraw(scen, StepAt(state.stream, state.pos + i - 1))]

InitGen ==
    /\ variant = "gen"
    /\ rounding \in {"down", "nearest", "up"}
    /\ cfg = [none |-> TRUE]
    /\ pc = "idle"
    /\ scenario = "none"
    /\ market_returns = << >>
    /\ year_idx = 0
    /\ ira_balance = 0
    /\ roth_balance = 0
    /\ brokerage_balance = 0
    /\ savings_balance = 0
    /\ loc = NoLocals
    /\ results = << >>
    /\ total_conversions = 0
    /\ total_taxes = 0
    /\ years_with_shortfall = 0
    /\ roth_withdrawals = 0
    /\ roth_drawn = 0
    /\ outcome = [none |-> TRUE]
    /\ BatchIdle

\* the caller seeds the global generator
NpRandomSeed ==
    /\ variant = "gen"
    /\ Len(calls) < MaxCalls
    /\ \E seed \in GenSeeds :
          /\ np_random' = SeedState(seed)
          /\ calls' = Append(calls, [op |-> "seed", seed |-> seed,
                                     scenario |-> "none", returns |-> << >>])
    /\ UNCHANGED <<variant, simVars, futures, worker_rng, worker_job, run_log,
                   batch_results, completed, error, execution, previous_results,
                   analysis>>

\* a call of generate_market_returns(scenario) with a registered name
GenerateCall ==
    /\ variant = "gen"
    /\ Len(calls) < MaxCalls
    /\ \E scen \in DOMAIN scenarios :
          \E returns \in {GenerateMarketReturns(scen, DrawsFrom(np_random, scen))} :
             /\ market_returns' = returns
             /\ scenario' = scen
             /\ calls' = Append(calls, [op |-> "generate_market_returns", seed |-> 0,
                                        scenario |-> scen, returns |-> returns])
    /\ np_random' = [np_random EXCEPT !.pos = @ + (end_age - start_age + 1)]
    /\ UNCHANGED <<variant, rounding, pc, cfg, year_idx, ira_balance,
                   roth_balance, brokerage_balance, savings_balance, loc, results,
                   total_conversions, total_taxes, years_with_shortfall,
                   roth_withdrawals, outcome, roth_drawn>>
    /\ UNCHANGED <<futures, worker_rng, worker_job, run_log, batch_results, completed,
                   error, execution, previous_results, analysis>>

NextGen ==
    \/ NpRandomSeed
    \/ GenerateCall

SpecGen == InitGen /\ [][NextGen]_vars

----------------------------------------------------------------------------
\* MonteCarloRothAnalyzer.analyze_results
\*
\* numpy computes in float64: a result that is not representable is rounded to
\* the nearest representable value, ties to the even one.  The spacing of the
\* representable values doubles with every power of two, so a sum of amounts
\* is rounded more coarsely than the amounts themselves.  Here the amounts are
\* whole dollars below Significand, which fill the significand as real
\* amounts fill the 53 bits of a float64: every whole number below
\* Significand is representable, every second one below 2 * Significand,
\* every fourth one below 4 * Significand.

Significand == 8388608

\* the spacing of the representable values at the magnitude of x
RECURSIVE Spacing(_)
Spacing(x) == IF Abs(x) < Significand THEN 1 ELSE 2 * Spacing(Abs(x) \div 2)

\* the representable value nearest to num / den (num >= 0, den > 0)
FloatQuot(num, den) ==
    LET g == Spacing(num \div den)
        k == num \div (den * g)
        rest == num - k * den * g
    IN  IF 2 * rest > den * g \/ (2 * rest = den * g /\ k % 2 = 1)
        THEN g * (k + 1)
        ELSE g * k

Float(x) == IF x >= 0 THEN FloatQuot(x, 1) ELSE -FloatQuot(-x, 1)

\* np.add.reduce: the elements added one after the other, each sum rounded
RECURSIVE FloatSum(_)
FloatSum(values) ==
    IF values = << >> THEN 0
    ELSE Float(FloatSum(SubSeq(values, 1, Len(values) - 1)) + values[Len(values)])

\* np.mean: the sum divided by the number of elements
NpMean(values) == FloatQuot(FloatSum(values), Len(values))

RECURSIVE Insert(_, _)
Insert(x, s) ==
    IF s = << >> THEN <<x>>
    ELSE IF x <= Head(s) THEN <<x>> \o s
    ELSE <<Head(s)>> \o Insert(x, Tail(s))

RECURSIVE Sorted(_)
Sorted(s) == IF s = << >> THEN << >> ELSE Insert(Head(s), Sorted(Tail(s)))

\* np.median: the middle element, or the mean of the two middle elements
NpMedian(values) ==
    LET s == Sorted(values)
        n == Len(s)
    IN  IF n % 2 = 1 THEN s[(n + 1) \div 2]
        ELSE NpMean(<<s[n \div 2], s[n \div 2 + 1]>>)

\* (the interpolation taken on the neighbour itself instead of on the
\* difference of the two neighbours)
NpPercentile_NoDiff(values, q) ==
    LET s == Sorted(values)
        n == Len(s)
        previous_index == ((n - 1) * q) \div 100
        next_index == Min(previous_index + 1, n - 1)
        t == ((n - 1) * q) % 100
        a == s[previous_index + 1]
        b == s[next_index + 1]
    IN  IF t < 50 THEN Float(a + FloatQuot(b * t, 100))
        ELSE Float(b - FloatQuot(b * (100 - t), 100))

\* np.percentile(values, q), method 'linear': the element at the virtual
\* index (n - 1) * q / 100, interpolated between its two neighbours
NpPercentile(values, q) ==
    LET s == Sorted(values)
        n == Len(s)
        previous_index == ((n - 1) * q) \div 100
        next_index == Min(previous_index + 1, n - 1)
        t == ((n - 1) * q) % 100
        a == s[previous_index + 1]
        b == s[next_index + 1]
        diff_b_a == b - a
    IN  IF t < 50 THEN Float(a + FloatQuot(diff_b_a * t, 100))
        ELSE Float(b - FloatQuot(diff_b_a * (100 - t), 100))

RECURSIVE ISqrt(_)
ISqrt(x) ==
    IF x < 2 THEN x
    ELSE LET s == 2 * ISqrt(x \div 4)
         IN  IF (s + 1) * (s + 1) <= x THEN s + 1 ELSE s

\* np.std: the square root of the mean of the squared deviations from the mean
NpStd(values) ==
    LET mean == NpMean(values)
        squares == [i \in DOMAIN values |-> Float((values[i] - mean) * (values[i] - mean))]
        variance == NpMean(squares)
        r == ISqrt(variance)
    IN  IF variance - r * r > r THEN r + 1 ELSE r

\* count / len(results) for a non-empty list, in percent
Share(count, n) == (100 * count + n \div 2) \div n

percentiles == <<5, 10, 25, 50, 75, 90, 95>>

\* the dictionary analysis, for a non-empty list
Statistics(outcomes, scenario_name) ==
    LET net_worths == [i \in DOMAIN outcomes |-> outcomes[i].final_net_worth]
        roth_balances == [i \in DOMAIN outcomes |-> outcomes[i].final_roth_balance]
        conversions == [i \in DOMAIN outcomes |-> outcomes[i].total_conversions]
        taxes == [i \in DOMAIN outcomes |-> outcomes[i].total_taxes]
        shortfall_years == [i \in DOMAIN outcomes |-> 100 * outcomes[i].years_with_shortfall]
        n == Len(outcomes)
        roth_preserved_count ==
            Cardinality({i \in DOMAIN outcomes : outcomes[i].roth_preserved})
        roth_above_1m == Cardinality({i \in DOMAIN outcomes : roth_balances[i] >= 1000000})
        roth_above_2m == Cardinality({i \in DOMAIN outcomes : roth_balances[i] >= 2000000})
        net_worth_above_5m == Cardinality({i \in DOMAIN outcomes : net_worths[i] >= 5000000})
    IN  [scenario |-> scenario_name,
         total_simulations |-> n,
         roth_preservation_rate |-> Share(roth_preserved_count, n),
         avg_final_net_worth |-> NpMean(net_worths),
         median_final_net_worth |-> NpMedian(net_worths),
         std_final_net_worth |-> NpStd(net_worths),
         avg_final_roth |-> NpMean(roth_balances),
         median_final_roth |-> NpMedian(roth_balances),
         avg_conversions |-> NpMean(conversions),
         avg_taxes |-> NpMean(taxes),
         prob_roth_above_1m |-> Share(roth_above_1m, n),
         prob_roth_above_2m |-> Share(roth_above_2m, n),
         prob_net_worth_above_5m |-> Share(net_worth_above_5m, n),
         avg_shortfall_years |-> NpMean(shortfall_years),
         worst_case_net_worth |-> SeqMin(net_worths),
         best_case_net_worth |-> SeqMax(net_worths),
         net_worth_percentiles |->
             [k \in DOMAIN percentiles |-> NpPercentile(net_worths, percentiles[k])],
         roth_percentiles |->
             [k \in DOMAIN percentiles |-> NpPercentile(roth_balances, percentiles[k])]]

\* what the dictionary would hold for an empty list if none of its entries
\* raised: numpy's statistics of no values are nan
NanStatistics(scenario_name) ==
    [scenario |-> scenario_name, total_simulations |-> 0,
     roth_preservation_rate |-> "nan", avg_final_net_worth |-> "nan",
     median_final_net_worth |-> "nan", std_final_net_worth |-> "nan",
     avg_final_roth |-> "nan", median_final_roth |-> "nan",
     avg_conversions |-> "nan", avg_taxes |-> "nan",
     prob_roth_above_1m |-> "nan", prob_roth_above_2m |-> "nan",
     prob_net_worth_above_5m |-> "nan", avg_shortfall_years |-> "nan",
     worst_case_net_worth |-> "nan", best_case_net_worth |-> "nan",
     net_worth_percentiles |-> [k \in DOMAIN percentiles |-> "nan"],
     roth_percentiles |-> [k \in DOMAIN percentiles |-> "nan"]]

\* (every entry computed by numpy, which warns and yields nan where Python's
\* own division raises)
AnalysisError_NumpyOnly(outcomes, percentile_of_empty) ==
    IF outcomes = << >> /\ percentile_of_empty # "nan" THEN percentile_of_empty
    ELSE "none"

\* the first exception analyze_results raises, "none" if it raises none.
\* For an empty list np.percentile (line 325) raises IndexError or returns nan,
\* depending on the numpy version (percentile_of_empty); the entry
\* roth_preserved_count / len(results) (line 331) then divides 0 by 0.
AnalysisError(outcomes, percentile_of_empty) ==
    IF outcomes # << >> THEN "none"
    ELSE IF percentile_of_empty # "nan" THEN percentile_of_empty
    ELSE "ZeroDivisionError"

\* the outcome sets analyze_results is called with
OutcomeKinds ==
    {[final_net_worth |-> nw, final_roth_balance |-> roth,
      total_conversions |-> 590000, total_taxes |-> 210000,
      roth_preserved |-> (roth >= 1000000),
      years_with_shortfall |-> (IF roth >= 1000000 THEN 0 ELSE 2)] :
        nw \in {6000000, 6000002, 6004000}, roth \in {250000, 2100000}}

RECURSIVE OutcomeLists(_)
OutcomeLists(n) ==
    IF n = 0 THEN {<< >>}
    ELSE OutcomeLists(n - 1)
         \cup {Append(s, [simulation_id |-> Len(s)] @@ k) :
                  s \in {l \in OutcomeLists(n - 1) : Len(l) = n - 1}, k \in OutcomeKinds}

InitAnalyze ==
    /\ variant = "analyze"
    /\ cfg = [scenario_name |-> "base_case"]
    /\ pc = "call"
    /\ futures = << >>
    /\ worker_rng = << >>
    /\ worker_job = << >>
    /\ run_log = << >>
    /\ batch_results \in OutcomeLists(MaxResults)
    /\ completed = << >>
    /\ error = "none"
    /\ execution = 1
    /\ previous_results = << >>
    /\ np_random = [stream |-> 0, pos |-> 0]
    /\ calls = << >>
    /\ analysis = [none |-> TRUE]
    /\ SimIdle

\* analyze_results(results, scenario_name): returns the dictionary or raises
AnalyzeResults ==
    /\ variant = "analyze"
    /\ pc = "call"
    /\ \E percentile_of_empty \in {"IndexError", "nan"} :
          /\ error' = AnalysisError(batch_results, percentile_of_empty)
          /\ \/ /\ error' = "none"
                /\ analysis' = IF batch_results = << >>
                               THEN NanStatistics(cfg.scenario_name)
                               ELSE Statistics(batch_results, cfg.scenario_name)
                /\ pc' = "done"
             \/ /\ error' # "none"
                /\ pc' = "raised"
                /\ UNCHANGED analysis
    /\ UNCHANGED <<variant, rounding, cfg, scenario, market_returns, year_idx,
                   ira_balance, roth_balance, brokerage_balance, savings_balance,
                   loc, results, total_conversions, total_taxes,
                   years_with_shortfall, roth_withdrawals, outcome, roth_drawn>>
    /\ UNCHANGED <<futures, worker_rng, worker_job, run_log, batch_results, completed,
                   execution, previous_results, np_random, calls>>

NextAnalyze == AnalyzeResults

SpecAnalyze == InitAnalyze /\ [][NextAnalyze]_vars

----------------------------------------------------------------------------
\* The analyzers' methods calculate_expenses and get_social_security, called
\* directly: cfg holds the analyzer ("det": RothConversionAnalyzer, "mc":
\* MonteCarloRothAnalyzer), the method and its arguments, outcome the value
\* returned.

CallAges == 55..MaxCallAge
CallYears == start_year..(start_year + MaxCallYears)

MethodCalls ==
    [analyzer : {"det", "mc"}, method : {"calculate_expenses"},
     age : CallAges, year : CallYears]
    \cup [analyzer : {"det", "mc"}, method : {"get_social_security"},
          age : CallAges, year : {start_year}]

InitCalls ==
    /\ variant = "call"
    /\ cfg \in MethodCalls
    /\ pc = "call"
    /\ rounding \in {"down", "nearest", "up"}
    /\ scenario = "base_case"
    /\ market_returns = << >>
    /\ year_idx = 0
    /\ ira_balance = 0
    /\ roth_balance = 0
    /\ brokerage_balance = 0
    /\ savings_balance = 0
    /\ loc = NoLocals
    /\ results = << >>
    /\ total_conversions = 0
    /\ total_taxes = 0
    /\ years_with_shortfall = 0
    /\ roth_withdrawals = 0
    /\ roth_drawn = 0
    /\ outcome = [none |-> TRUE]
    /\ BatchIdle

CallCalculateExpenses ==
    /\ variant = "call"
    /\ pc = "call"
    /\ cfg.method = "calculate_expenses"
    /\ outcome' = [value |-> IF cfg.analyzer = "det"
                             THEN DetCalculateExpenses(cfg.age, cfg.year)
                             ELSE McCalculateExpenses(cfg.age, cfg.year)]
    /\ pc' = "done"
    /\ UNCHANGED <<variant, rounding, cfg, scenario, market_returns, year_idx,
                   ira_balance, roth_balance, brokerage_balance, savings_balance,
                   loc, results, total_conversions, total_taxes,
                   years_with_shortfall, roth_withdrawals, roth_drawn, batchVars>>

CallGetSocialSecurity ==
    /\ variant = "call"
    /\ pc = "call"
    /\ cfg.method = "get_social_security"
    /\ outcome' = [value |-> IF cfg.analyzer = "det"
                             THEN DetGetSocialSecurity(cfg.age)
                             ELSE McGetSocialSecurity(cfg.age)]
    /\ pc' = "done"
    /\ UNCHANGED <<variant, rounding, cfg, scenario, market_returns, year_idx,
                   ira_balance, roth_balance, brokerage_balance, savings_balance,
                   loc, results, total_conversions, total_taxes,
                   years_with_shortfall, roth_withdrawals, roth_drawn, batchVars>>

NextCalls ==
    \/ CallCalculateExpenses
    \/ CallGetSocialSecurity

SpecCalls == InitCalls /\ [][NextCalls]_vars

----------------------------------------------------------------------------
\* One year of each simulator from the same balances, age, net need and
\* return: the statements of the two loop bodies from the growth to the end of
\* the withdrawals, with net_expenses given (the two analyzers inflate the
\* expenses at different rates).  loc.det and loc.mc hold the locals the
\* deterministic and the Monte Carlo loop body leave.

DetYearStep(b, age, net_expenses, market_return) ==
    LET start == DetApplyGrowth(b, market_return)
        conv == DetConversion(start, age, net_expenses)
        w0 == Waterfall(conv.b, net_expenses)
        w1 == DetUseSavings(w0)
        w2 == DetUseBrokerage(w1)
        w3 == DetUseIRA(w2)
        w4 == DetNeverUseRoth(w3)
    IN  [age |-> age, start |-> start, net_expenses |-> net_expenses,
         conv |-> conv, w3 |-> w3, w4 |-> w4]

McYearStep(b, age, net_expenses, market_return) ==
    LET start == McApplyGrowth(b, market_return)
        conv == McConversion(start, age, net_expenses)
        w0 == Waterfall(conv.b, net_expenses)
        w1 == McUseSavings(w0)
        w2 == McUseBrokerage(w1)
        w3 == McUseIRA(w2)
        w4 == McUseRoth(w3)
    IN  [age |-> age, start |-> start, net_expenses |-> net_expenses,
         conv |-> conv, w3 |-> w3, w4 |-> w4]

\* the years compared: age, net need and return (percent) of the year
YearInputs ==
    [age : {62, 66, 67, 73, 74},
     net_expenses : {44000, 80000, 104000},
     market_return : {-120, -100, -20, 0, 6}]

\* balances at the start of the year
YearBalances ==
    [ira : {0, 9000, 200000, 1000000}, roth : {250000},
     brokerage : {0, 50000, 300000}, savings : {0, 20000, 100000}]

InitCompare ==
    /\ variant = "compare"
    /\ cfg \in YearInputs
    /\ pc = "det"
    /\ rounding \in {"down", "nearest", "up"}
    /\ scenario = "base_case"
    /\ market_returns = << cfg.market_return >>
    /\ year_idx = 0
    /\ \E b \in YearBalances :
          /\ ira_balance = b.ira
          /\ roth_balance = b.roth
          /\ brokerage_balance = b.brokerage
          /\ savings_balance = b.savings
    /\ loc = [det |-> NoLocals, mc |-> NoLocals]
    /\ results = << >>
    /\ total_conversions = 0
    /\ total_taxes = 0
    /\ years_with_shortfall = 0
    /\ roth_withdrawals = 0
    /\ roth_drawn = 0
    /\ outcome = [none |-> TRUE]
    /\ BatchIdle

CompareDetYear ==
    /\ variant = "compare"
    /\ pc = "det"
    /\ loc' = [loc EXCEPT !.det =
                  DetYearStep(Balances(ira_balance, roth_balance, brokerage_balance,
                                       savings_balance),
                              cfg.age, cfg.net_expenses, cfg.market_return)]
    /\ pc' = "mc"
    /\ UNCHANGED <<variant, rounding, cfg, scenario, market_returns, year_idx,
                   ira_balance, roth_balance, brokerage_balance, savings_balance,
                   results, total_conversions, total_taxes, years_with_shortfall,
                   roth_withdrawals, outcome, roth_drawn, batchVars>>

CompareMcYear ==
    /\ variant = "compare"
    /\ pc = "mc"
    /\ loc' = [loc EXCEPT !.mc =
                  McYearStep(Balances(ira_balance, roth_balance, brokerage_balance,
                                      savings_balance),
                             cfg.age, cfg.net_expenses, cfg.market_return)]
    /\ pc' = "done"
    /\ UNCHANGED <<variant, rounding, cfg, scenario, market_returns, year_idx,
                   ira_balance, roth_balance, brokerage_balance, savings_balance,
                   results, total_conversions, total_taxes, years_with_shortfall,
                   roth_withdrawals, outcome, roth_drawn, batchVars>>

NextCompare ==
    \/ CompareDetYear
    \/ CompareMcYear

SpecCompare == InitCompare /\ [][NextCompare]_vars

----------------------------------------------------------------------------
\* Properties

\* the loop body has run at least once: loc holds a year's locals
Ran == variant \in {"det", "mc"} /\ year_idx > 0

NonNegative(b) == b.ira >= 0 /\ b.roth >= 0 /\ b.brokerage >= 0 /\ b.savings >= 0

Exhausted(b) == b.savings = 0 /\ b.brokerage = 0 /\ b.ira = 0

\* C1: in the deterministic strategy every year's record has Roth_Withdrawal = 0
\* and the withdrawal phase never decreases the Roth balance, whatever the other
\* three balances are, also when all three are exhausted and need is unmet.
C1_RothNeverWithdrawn ==
    variant = "det" =>
        /\ \A i \in DOMAIN results : results[i].Roth_Withdrawal = 0
        /\ Ran => /\ loc.w1.b.roth >= loc.w0.b.roth
                  /\ loc.w2.b.roth >= loc.w0.b.roth
                  /\ loc.w3.b.roth >= loc.w0.b.roth
                  /\ loc.w4.b.roth >= loc.w0.b.roth
                  /\ results[Len(results)].Roth_End >= loc.w0.b.roth
                  /\ roth_balance >= loc.w0.b.roth

C1_Witness ==
    /\ variant = "det"
    /\ Ran
    /\ loc.w4.remaining_need > 0
    /\ Exhausted(loc.w4.b)
    /\ loc.w4.b.roth > 0
    /\ results[Len(results)].Roth_Withdrawal = 0

\* C2: in the Monte Carlo run the outcome's roth_preserved is true exactly when
\* the amounts taken out of the Roth balance over all years sum to 0 (and at
\* every year roth_withdrawals is 0 exactly when that sum so far is 0).
C2_PreservedIffNothingDrawn ==
    variant = "mc" =>
        /\ (roth_withdrawals = 0) <=> (roth_drawn = 0)
        /\ pc = "done" => (outcome.roth_preserved <=> (roth_drawn = 0))

C2_Witness ==
    /\ variant = "mc"
    /\ pc = "done"
    /\ roth_drawn > 0
    /\ ~outcome.roth_preserved

C4_BalancesNonNegative ==
    variant = "mc" =>
        /\ ira_balance >= 0 /\ roth_balance >= 0
        /\ brokerage_balance >= 0 /\ savings_balance >= 0
        /\ Ran => /\ NonNegative(loc.start)
                  /\ NonNegative(loc.conv.b)
                  /\ NonNegative(loc.w1.b)
                  /\ NonNegative(loc.w2.b)
                  /\ NonNegative(loc.w3.b)
                  /\ NonNegative(loc.w4.b)
        /\ pc = "done" => outcome.final_roth_balance >= 0 /\ outcome.final_net_worth >= 0

C4_Witness ==
    /\ variant = "mc"
    /\ Ran
    /\ year_idx >= 2
    /\ loc.market_return < -100
    /\ loc.start = Balances(0, 0, 0, 0)

\* C5: in both variants brokerage is drawn in a year only if savings is 0
\* after the savings step, and the tax-deferred account only if savings and
\* brokerage are both 0 after their steps.
C5_StrictWaterfallOrder ==
    Ran =>
        /\ loc.w2.brokerage_used > 0 => loc.w1.b.savings = 0
        /\ loc.w3.ira_used > 0 => loc.w1.b.savings = 0 /\ loc.w2.b.brokerage = 0

\* C6: in the deterministic strategy, in a year where need remains after
\* savings, brokerage and the IRA are exhausted, the residual is recorded as a
\* shortfall in that year's record and no account is reduced to cover it.
C6_ShortfallRecordedAndUnfunded ==
    (variant = "det" /\ Ran /\ loc.w3.remaining_need > 0 /\ Exhausted(loc.w3.b)) =>
        LET year_data == results[Len(results)]
        IN  /\ "Shortfall" \in DOMAIN year_data
            /\ year_data["Shortfall"] = loc.w3.remaining_need
            /\ loc.w4.b = loc.w3.b
            /\ loc.w4.remaining_need = loc.w3.remaining_need

\* C7: in both variants the conversion is all-or-nothing: the conversion amount
\* is the full target if savings + coefficient * brokerage >= target *
\* conversion tax rate and target >= 10,000 (exactly 10,000 converts), and
\* otherwise it is 0 and the conversion phase changes no balance.
C7_AllOrNothing ==
    Ran =>
        LET c == loc.conv
            s == loc.start
            coefficient == IF variant = "det" THEN 50 ELSE 40
            gate == /\ s.savings + Pct(s.brokerage, coefficient)
                         >= Pct(c.target_conversion, tax_rate_conversion)
                    /\ c.target_conversion >= 10000
        IN  IF gate
            THEN c.conversion_amount = c.target_conversion
            ELSE c.conversion_amount = 0 /\ c.b = s

C7_Witness ==
    /\ Ran
    /\ loc.conv.target_conversion = 10000
    /\ loc.conv.conversion_amount = 10000
    /\ loc.conv.b.roth = loc.start.roth + 10000

\* the cap of the age's band
AgeBandCap(age) ==
    IF age \in 62..66 THEN 80000
    ELSE IF age = 67 THEN 60000
    ELSE IF age \in 68..72 THEN 50000
    ELSE 30000

\* C8: in both variants the executed conversion never exceeds the cap of the
\* age's band, never exceeds the tax-deferred balance available at that moment
\* and is 0 at every age outside start_age..rmd_age.
C8_ConversionWithinCap ==
    Ran =>
        /\ loc.conv.conversion_amount <= AgeBandCap(loc.age)
        /\ loc.conv.conversion_amount <= loc.start.ira
        /\ loc.age \notin start_age..rmd_age => loc.conv.conversion_amount = 0

C8_Witness ==
    /\ Ran
    /\ loc.age \in 68..72
    /\ loc.conv.conversion_amount = 50000
    /\ loc.conv.conversion_capacity > 50000

\* C9: a conversion of amount A takes exactly A from the tax-deferred balance
\* and adds exactly A to the tax-free balance; the tax A * conversion tax rate
\* comes entirely from savings when savings covers it, else savings becomes 0
\* and brokerage pays only the rest; savings + brokerage falls by exactly the tax.
C9_ConversionMovesAmountAndTax ==
    (Ran /\ loc.conv.conversion_amount > 0) =>
        LET A == loc.conv.conversion_amount
            tax == Pct(A, tax_rate_conversion)
            s == loc.start
            b == loc.conv.b
        IN  /\ b.ira = s.ira - A
            /\ b.roth = s.roth + A
            /\ IF s.savings >= tax
               THEN b.savings = s.savings - tax /\ b.brokerage = s.brokerage
               ELSE b.savings = 0 /\ b.brokerage = s.brokerage - (tax - s.savings)
            /\ (s.savings + s.brokerage) - (b.savings + b.brokerage) = tax

C9_Witness ==
    /\ Ran
    /\ loc.conv.conversion_amount > 0
    /\ loc.start.savings < loc.conv.conversion_tax
    /\ loc.conv.b.savings = 0
    /\ loc.conv.b.brokerage < loc.start.brokerage

\* C10: the runs of a batch share no mutable state: no run reads a state of
\* the random source that another run has written, so what a run draws does
\* not depend on the worker that executes it or on the runs that worker
\* executed before.
C10_NoSharedRandomState ==
    variant = "batch" =>
        \A i \in DOMAIN run_log :
            run_log[i] # NoRun =>
                /\ run_log[i].rng_written_by = -1
                /\ run_log[i].rng_read.pos = 0

\* C11: two executions of a batch with the same seed, scenario and run count
\* give the same outcome for every run index (and so the same preservation
\* rate), whatever the assignment of runs to workers and the completion order.
C11_SameSeedSameOutcomes ==
    (variant = "batch" /\ execution = 2 /\ pc = "done") =>
        batch_results = previous_results

\* the seed a call of generate_market_returns was made with: the seed the
\* caller gave np.random right before the call, 0 if it gave none
SeedOfCall(i) ==
    IF i > 1 /\ calls[i - 1].op = "seed" THEN calls[i - 1].seed ELSE 0

C13_ResultsInSubmissionOrder ==
    (variant = "batch" /\ pc = "done" /\ cfg.num_simulations >= 0) =>
        /\ Len(batch_results) = cfg.num_simulations
        /\ \A i \in DOMAIN batch_results :
              /\ batch_results[i].simulation_id = i - 1
              /\ batch_results[i] = run_log[i].result

C13_Witness ==
    /\ variant = "batch"
    /\ pc = "done"
    /\ Len(batch_results) >= 2
    /\ completed[1] # 0
    /\ batch_results[1].simulation_id = 0

\* C14: if a run of the batch raises, the batch is not aborted: the call
\* returns, every other run's outcome is in the returned list, and the failing
\* run is in it as a failed run.
C14_FailedRunDoesNotAbort ==
    (/\ variant = "batch"
     /\ pc \in {"done", "raised"}
     /\ error # "KeyboardInterrupt"
     /\ \E i \in DOMAIN futures : futures[i] = "failed") =>
        /\ pc = "done"
        /\ Len(ReturnedResults) = Len(futures)
        /\ \A i \in DOMAIN futures :
              IF futures[i] = "failed"
              THEN "failed" \in DOMAIN ReturnedResults[i]
              ELSE ReturnedResults[i] = run_log[i].result

\* C15: if the batch is stopped by a user interrupt while runs are pending, the
\* outcomes collected so far remain available to the caller.
C15_CollectedSurviveInterrupt ==
    (variant = "batch" /\ pc = "raised" /\ error = "KeyboardInterrupt") =>
        ReturnedResults = batch_results

\* C16: each of the five registered scenario names has a mean and a volatility
\* and is accepted; any other name makes run_monte_carlo_analysis fail with the
\* error of the invalid name (the KeyError of the registry) before any run is
\* submitted or executed.
C16_UnknownScenarioFailsFirst ==
    variant = "batch" =>
        /\ \A name \in {"base_case", "low_return", "high_volatility",
                        "stagflation", "great_recession"} :
              /\ name \in DOMAIN scenarios
              /\ DOMAIN scenarios[name] = {"mean", "volatility"}
              /\ cfg.scenario = name => error # "KeyError"
        /\ cfg.scenario \notin DOMAIN scenarios =>
              /\ pc \in {"call", "raised"}
              /\ pc = "raised" => error = "KeyError"
              /\ futures = << >>
              /\ completed = << >>
              /\ batch_results = << >>

C16_Witness ==
    /\ variant = "batch"
    /\ cfg.scenario \notin DOMAIN scenarios
    /\ cfg.num_simulations >= 1
    /\ pc = "raised"
    /\ error = "KeyError"
    /\ futures = << >>

\* C17: a run count of 0 or less is rejected before any simulation executes:
\* the call never goes on to create the pool and never returns a list.
C17_NonPositiveCountRejected ==
    (variant = "batch" /\ cfg.num_simulations <= 0) =>
        /\ pc \in {"call", "raised"}
        /\ pc = "raised" => error # "none"

C19_IdenticalNetWorths ==
    (/\ variant = "analyze"
     /\ pc = "done"
     /\ \A i \in DOMAIN batch_results :
           batch_results[i].final_net_worth = batch_results[1].final_net_worth) =>
        LET v == batch_results[1].final_net_worth
        IN  /\ analysis.avg_final_net_worth = v
            /\ analysis.median_final_net_worth = v
            /\ analysis.worst_case_net_worth = v
            /\ analysis.best_case_net_worth = v
            /\ \A k \in DOMAIN percentiles : analysis.net_worth_percentiles[k] = v

\* C19 as amended: for a non-empty outcome set whose final_net_worth are all
\* the same value v, analyze_results returns v as the median, the worst and
\* the best case and as every net worth percentile, and as the average when
\* there are one or two outcomes; the average of more outcomes is the rounded
\* sum divided by their number, which need not be v.
C19_IdenticalNetWorthsButMean ==
    (/\ variant = "analyze"
     /\ pc = "done"
     /\ \A i \in DOMAIN batch_results :
           batch_results[i].final_net_worth = batch_results[1].final_net_worth) =>
        LET v == batch_results[1].final_net_worth
        IN  /\ analysis.median_final_net_worth = v
            /\ analysis.worst_case_net_worth = v
            /\ analysis.best_case_net_worth = v
            /\ \A k \in DOMAIN percentiles : analysis.net_worth_percentiles[k] = v
            /\ Len(batch_results) <= 2 => analysis.avg_final_net_worth = v

C19_Witness ==
    /\ variant = "analyze"
    /\ pc = "done"
    /\ Len(batch_results) = 3
    /\ \A i \in DOMAIN batch_results : batch_results[i].final_net_worth = 6000002
    /\ analysis.avg_final_net_worth # 6000002
    /\ analysis.median_final_net_worth = 6000002
    /\ analysis.net_worth_percentiles[1] = 6000002

\* C20: for every scenario the outcome's sequence_of_returns_risk is the
\* deviation of the mean of the run's first 5 returns from the long-run mean
\* of the scenario the run was generated with.
C20_SequenceRiskUsesScenarioMean ==
    (variant = "mc" /\ pc = "done") =>
        LET first == SubSeq(market_returns, 1, 5)
            early_years_avg == Rnd(SeqSum(first), 5)
        IN  outcome.sequence_of_returns_risk
                = Abs(early_years_avg - scenarios[scenario].mean)

\* C21: generate_market_returns returns exactly end_age - start_age + 1 returns
\* (24), and each simulator processes exactly one year for each age
\* start_age..end_age in increasing order and then terminates with its result:
\* the k-th iteration is the year of age start_age + k - 1, a run that has not
\* returned is at a year of the loop or at its end, and a run that has returned
\* has done all 24 years.
C21_OneYearPerAge ==
    variant \in {"det", "mc"} =>
        LET years == end_age - start_age + 1
        IN  /\ years = 24
            /\ year_idx \in 0..years
            /\ (variant = "mc" /\ pc # "gen") => Len(market_returns) = years
            /\ Ran => loc.age = start_age + year_idx - 1
            /\ variant = "det" =>
                   /\ Len(results) = year_idx
                   /\ \A i \in DOMAIN results : results[i].Age = start_age + i - 1
            /\ pc \in {"gen", "run", "done"}
            /\ pc = "gen" => variant = "mc" /\ year_idx = 0
            /\ pc # "done" => outcome = [none |-> TRUE]
            /\ pc = "done" =>
                   /\ year_idx = years
                   /\ loc.age = end_age
                   /\ outcome # [none |-> TRUE]

C21_Witness ==
    /\ variant = "mc"
    /\ pc = "done"
    /\ Len(market_returns) = 24
    /\ year_idx = 24
    /\ loc.age = end_age

\* C22: get_social_security is a step function in both variants: for every age
\* it returns 0 when the age is below 67 and exactly 36,000 from age 67 on, with
\* no phase-in; in particular 0 at age 66 and 36,000 at age 67.
C22_SocialSecurityStep ==
    (variant = "call" /\ pc = "done" /\ cfg.method = "get_social_security") =>
        outcome.value = (IF cfg.age < 67 THEN 0 ELSE 36000)

C22_Witness ==
    /\ variant = "call"
    /\ pc = "done"
    /\ cfg.method = "get_social_security"
    /\ cfg.analyzer = "mc"
    /\ cfg.age = 67
    /\ outcome.value = 36000

C24_TotalTaxesComposition ==
    variant = "det" =>
        \A i \in DOMAIN results :
            LET r == results[i]
            IN  /\ r.Total_Taxes = r.Conversion_Tax
                                   + Pct(r.Brokerage_Withdrawal, tax_rate_brokerage)
                                   + Pct(r.IRA_Withdrawal, tax_rate_ira)
                /\ r.Conversion_Tax = Pct(r.Conversion_Amount, tax_rate_conversion)
                /\ r.Total_Taxes > 0 =>
                       \/ r.Conversion_Amount > 0
                       \/ r.Brokerage_Withdrawal > 0
                       \/ r.IRA_Withdrawal > 0
                /\ (r.Conversion_Amount = 0 /\ r.Brokerage_Withdrawal = 0
                    /\ r.IRA_Withdrawal = 0) => r.Total_Taxes = 0

C24_Witness ==
    /\ variant = "det"
    /\ \E i \in DOMAIN results :
           /\ results[i].Savings_Withdrawal = results[i].Net_Expenses
           /\ results[i].Net_Expenses > 0
           /\ results[i].Conversion_Amount = 0
           /\ results[i].Total_Taxes = 0
    /\ \E j \in DOMAIN results :
           /\ results[j].IRA_Withdrawal > 0
           /\ results[j].Total_Taxes > results[j].Conversion_Tax

\* C25: in the Monte Carlo run years_with_shortfall is the number of simulated
\* years in which savings, brokerage and the IRA together did not cover the
\* year's net need: every year in which the Roth fallback is invoked adds one,
\* whether or not the Roth balance then covers the residual.
C25_ShortfallYearsCounted ==
    [][(variant = "mc" /\ year_idx' = year_idx + 1) =>
           years_with_shortfall' =
               years_with_shortfall + (IF loc'.w3.remaining_need > 0 THEN 1 ELSE 0)]_vars

\* the year of each variant was one in which savings, brokerage and the IRA
\* covered the need and the two affordability gates decided alike
ComparableYear ==
    /\ variant = "compare"
    /\ pc = "done"
    /\ cfg.market_return >= -100
    /\ loc.det.w3.remaining_need <= 0
    /\ loc.mc.w3.remaining_need <= 0
    /\ (loc.det.conv.conversion_amount > 0) <=> (loc.mc.conv.conversion_amount > 0)

\* C26: the deterministic and the Monte Carlo year step differ only in the Roth
\* fallback and the tax-payment coefficient: from the same balances, age, net
\* need and a return >= -100%, in a year where the three other accounts cover
\* the need and both affordability gates decide alike, the two compute the same
\* estimated taxable income, conversion amount and tax, withdrawals and four
\* ending balances.
C26_SameYearStep ==
    ComparableYear =>
        /\ loc.det.start = loc.mc.start
        /\ loc.det.conv.current_taxable_income = loc.mc.conv.current_taxable_income
        /\ loc.det.conv.conversion_amount = loc.mc.conv.conversion_amount
        /\ loc.det.conv.conversion_tax = loc.mc.conv.conversion_tax
        /\ loc.det.w4.savings_used = loc.mc.w4.savings_used
        /\ loc.det.w4.brokerage_used = loc.mc.w4.brokerage_used
        /\ loc.det.w4.ira_used = loc.mc.w4.ira_used
        /\ loc.det.w4.b = loc.mc.w4.b

\* C27: in every year in which a conversion executes (either variant) the
\* conversion amount plus the taxable income estimated for that year (the
\* estimated IRA withdrawal plus half of the estimated brokerage withdrawal)
\* does not exceed bracket_22_max - standard_deduction = 88,350, and the
\* conversion capacity is never negative.
C27_ConversionWithinBracket ==
    Ran =>
        /\ loc.conv.conversion_capacity >= 0
        /\ loc.conv.conversion_amount > 0 =>
               /\ loc.conv.current_taxable_income =
                      (IF variant = "det"
                       THEN DetEstimateTaxableIncome(loc.start, loc.net_expenses)
                       ELSE McEstimateTaxableIncome(loc.start, loc.net_expenses))
               /\ loc.conv.conversion_amount + loc.conv.current_taxable_income
                      <= 88350

C27_Witness ==
    /\ Ran
    /\ loc.conv.conversion_amount > 0
    /\ loc.conv.conversion_amount < AgeBandCap(loc.age)
    /\ loc.conv.conversion_amount < loc.start.ira
    /\ loc.conv.current_taxable_income > 0
    /\ loc.conv.conversion_amount + loc.conv.current_taxable_income = 88350

\* C28: in the Monte Carlo run, for every return sequence, an outcome with
\* years_with_shortfall > 0 has roth_preserved = false: a run never reports
\* both a year of unfunded need and a preserved Roth account.
C28_ShortfallImpliesNotPreserved ==
    (variant = "mc" /\ pc = "done" /\ outcome.years_with_shortfall > 0) =>
        ~ outcome.roth_preserved

\* C29: in the Monte Carlo run the Roth account is a last resort: in any year
\* in which a positive amount is withdrawn from the Roth balance, the savings,
\* brokerage and IRA balances are all 0 at the end of that year.
C29_RothLastResort ==
    (variant = "mc" /\ Ran /\ loc.w3.b.roth - loc.w4.b.roth > 0) =>
        Exhausted(loc.w4.b)

\* C30: in both variants the waterfall never over-withdraws: after each step
\* the remaining need is >= 0, at the end of the waterfall the net need is
\* savings used + (1 - brokerage tax rate) * brokerage used + (1 - IRA tax
\* rate) * IRA used + the amount taken from the Roth balance (Monte Carlo only)
\* + the unmet remainder, and no account is reduced by more than is needed to
\* bring the remaining need to 0.
C30_NoOverWithdrawal ==
    Ran =>
        LET roth_taken == loc.w3.b.roth - loc.w4.b.roth
        IN  /\ loc.w1.remaining_need >= 0
            /\ loc.w2.remaining_need >= 0
            /\ loc.w3.remaining_need >= 0
            /\ loc.w4.remaining_need >= 0
            /\ loc.net_expenses =
                   loc.w4.savings_used
                   + Pct(loc.w4.brokerage_used, 100 - tax_rate_brokerage)
                   + Pct(loc.w4.ira_used, 100 - tax_rate_ira)
                   + roth_taken
                   + loc.w4.remaining_need
            /\ variant = "det" => roth_taken = 0
            /\ loc.w4.savings_used <= loc.w0.remaining_need
            /\ Pct(loc.w4.brokerage_used, 100 - tax_rate_brokerage)
                   <= loc.w1.remaining_need
            /\ Pct(loc.w4.ira_used, 100 - tax_rate_ira) <= loc.w2.remaining_need
            /\ roth_taken <= loc.w3.remaining_need

====
